---- MODULE Spec2Model ----
(***************************************************************************)
(* Model of staircase/walk.py: the staircase generator, the start-up       *)
(* block, the task-retarget callback update_robot_ik, suntan_hrp, the      *)
(* kinematics thread started by robot.start_ik_thread(dt) and the tick     *)
(* scheduler (wpg.simulation.Simulation) that drives the processes.        *)
(*                                                                         *)
(* Threads: "main" (the script, then the IPython shell), "tick" (the       *)
(* thread created by sim.start()) and "ik" (the kinematics thread).        *)
(***************************************************************************)
EXTENDS Integers, Sequences, FiniteSets, TLC

VARIABLES
    main_pc,      \* position of the main thread (script, then shell)
    robot_lock,   \* holder of walk.py's robot_lock: "free", "main" or "tick"
    tasks,        \* robot.ik.tasks: task name -> task (NoTask when absent)
    q,            \* robot joint configuration, tagged by its last writer
    active_dofs,  \* TRUE once robot.set_active_dofs has run
    appearance,   \* robot transparency / colours: "default", "glass", "suntan"
    ik_pc,        \* kinematics thread: "off", "idle", "solving"
    ik_seen,      \* the task set the solver read for the solve in progress
    processes,    \* sim.processes: core processes, in registration order
    extras,       \* sim.extras: auxiliary processes, in registration order
    mode,         \* scheduler state: "Idle" or "Running"
    tick_threads, \* number of tick threads created by start() and still alive
    stop_req,     \* stop() was called and the tick thread has not yet quiesced
    runner,       \* thread executing ticks: "none", "main" (step), "tick" (start)
    remaining,    \* ticks left in the current step(n)
    tick_time,    \* sim.tick_time: number of completed ticks
    clock,        \* simulated time in ms: advanced by Dt per tick
    tick_pc,      \* "idle", "proc", or a position inside update_robot_ik
    pidx,         \* index of the next process to invoke in this tick
    order,        \* processes invoked so far in the current tick, in order
    count,        \* process -> number of on_tick invocations so far
    lastFail,     \* tick of the last on_tick failure (NoFailure: none yet)
    fsm_c,        \* state machine: index of the current phase
    lastStep,     \* the step(n) call in progress or just returned
    rng,          \* state of numpy's global random generator
    calls,        \* calls of generate_staircase so far: <<params, result>>
    now,          \* time.time() in ms at the last ForceDrawer.on_tick
    last_bkgnd_switch, \* ForceDrawer.last_bkgnd_switch: None or At(t)
    handles,      \* ForceDrawer.handles: number of force arrows held
    bkgnd,        \* viewer background: "default", "alarm" or "normal"
    fd_support,   \* what find_supporting_forces returned in the last on_tick
    fd_result,    \* the last ForceDrawer.on_tick: "returned" or "raised"
    poly_handles, \* TubeDrawer.poly_handles: "none", "partial" or "drawn"
    cone_handles, \* TubeDrawer.cone_handles: "none", "partial" or "drawn"
    comdd_handle, \* TubeDrawer.comdd_handle: "none" or "drawn"
    trans,        \* TubeDrawer.trans: "initial" or "com"
    td_stages,    \* stages the last TubeDrawer.on_tick ran, with outcomes
    td_result     \* the last TubeDrawer.on_tick: "returned" or "raised"

vars == <<main_pc, robot_lock, tasks, q, active_dofs, appearance, ik_pc,
          ik_seen, processes, extras, mode, tick_threads, stop_req, runner, remaining,
          tick_time, clock, tick_pc, pidx, order, count, lastFail, fsm_c,
          lastStep, rng, calls, now, last_bkgnd_switch, handles, bkgnd,
          fd_support, fd_result, poly_handles, cone_handles, comdd_handle,
          trans, td_stages, td_result>>

robotVars == <<tasks, q, active_dofs, appearance>>
ikVars    == <<ik_pc, ik_seen>>
schedVars == <<processes, extras, mode, tick_threads, stop_req, runner, remaining,
               tick_time, clock, tick_pc, pidx, order, count, lastFail,
               lastStep>>
genVars   == <<rng, calls>>
fdVars    == <<now, last_bkgnd_switch, handles, bkgnd, fd_support, fd_result>>
tdVars    == <<poly_handles, cone_handles, comdd_handle, trans, td_stages,
               td_result>>
drawVars  == <<fdVars, tdVars>>

(***************************************************************************)
(* Bounds of the model.                                                    *)
(***************************************************************************)
MaxTicks    == 2   \* ticks executed in one behaviour
MaxN        == 2   \* largest n passed to step(n)
MaxCalls    == 2   \* calls of generate_staircase in one behaviour

(***************************************************************************)
(* Settings (walk.py:62).  Times are in milliseconds.                      *)
(***************************************************************************)
Dt == 30

(***************************************************************************)
(* The staircase built at walk.py:380-387 has 2 * 13 = 26 surfaces; the    *)
(* state machine walks it cyclically (cyclic=True, walk.py:398).           *)
(***************************************************************************)
NSurfaces == 26

(***************************************************************************)
(* Objects a task can target: a contact surface of the staircase (by its   *)
(* index in the list), the free-foot target fsm.free_foot, or nothing.     *)
(***************************************************************************)
None == <<"None", 0>>

Surface(i) == <<"surface", i>>

free_foot == <<"free_foot", 0>>

\* the point mass com of walk.py:389, held by preview_buffer (walk.py:390)
com == <<"com", 0>>

(***************************************************************************)
(* IK tasks.  A foot task is a ContactTask on a surface of the staircase   *)
(* or a LinkPoseTask on fsm.free_foot; the other tasks are only present    *)
(* or absent.                                                              *)
(***************************************************************************)
NoTask == [kind |-> "none", target |-> None]

FootTasks == {"left_foot", "right_foot"}

OtherTasks == {"com", "posture", "min_cam", "dof"}

TaskNames == FootTasks \cup OtherTasks

ContactTask(surface) == [kind |-> "contact", target |-> surface]

LinkPoseTask(target) == [kind |-> "link_pose", target |-> target]

PlainTask == [kind |-> "task", target |-> None]

(***************************************************************************)
(* fsm.cur_stance in phase number c.  The staircase alternates left (even  *)
(* index) and right (odd index) surfaces; the phases alternate double      *)
(* support (both feet in contact) and single support (the swing foot is    *)
(* None).  The first phase is the double support 'DS-R' (walk.py:394).     *)
(***************************************************************************)
StanceContacts(c) ==
    LET j == c \div 2
    IN  IF c % 2 = 0 THEN {j % NSurfaces, (j + 1) % NSurfaces}
                     ELSE {(j + 1) % NSurfaces}

cur_stance(c) ==
    LET cs     == StanceContacts(c)
        lefts  == {s \in cs : s % 2 = 0}
        rights == {s \in cs : s % 2 = 1}
    IN  [left_foot  |-> IF lefts = {} THEN None
                        ELSE Surface(CHOOSE s \in lefts : TRUE),
         right_foot |-> IF rights = {} THEN None
                        ELSE Surface(CHOOSE s \in rights : TRUE)]

(***************************************************************************)
(* with robot_lock: threading.Lock is not reentrant; acquire blocks until  *)
(* the lock is free.                                                       *)
(***************************************************************************)
LockFree == robot_lock = "free"

Acquire(self) == LockFree /\ robot_lock' = self

\* the lock is not released on leaving the block
Release_Leak(self) == robot_lock = self /\ robot_lock' = robot_lock

Release(self) == robot_lock = self /\ robot_lock' = "free"

\* an exception leaves the block and the lock stays with the thread
RaiseInWith_Held(self) == robot_lock = self /\ robot_lock' = robot_lock

\* an exception leaves the block: the with statement releases the lock
RaiseInWith(self) == Release(self)

(***************************************************************************)
(* update_robot_ik (walk.py:139-156), run by the thread executing the      *)
(* tick, as the state machine's callback.  Each call into robot.ik is one  *)
(* step, so that the other threads can run between two of them.            *)
(***************************************************************************)
left_foot_task(c) ==
    IF cur_stance(c).left_foot # None
    THEN ContactTask(cur_stance(c).left_foot)
    ELSE LinkPoseTask(free_foot)

\* the right foot's task built from the left foot's side of the stance
right_foot_task_FromLeft(c) ==
    IF cur_stance(c).left_foot # None
    THEN ContactTask(cur_stance(c).left_foot)
    ELSE LinkPoseTask(free_foot)

right_foot_task(c) ==
    IF cur_stance(c).right_foot # None
    THEN ContactTask(cur_stance(c).right_foot)
    ELSE LinkPoseTask(free_foot)

InUpdateRobotIk ==
    tick_pc \in {"uik_rm_left", "uik_rm_right", "uik_add_left",
                 "uik_add_right", "uik_release"}

UikAcquire ==
    /\ tick_pc = "uik_acquire"
    /\ Acquire(runner)
    /\ tick_pc' = "uik_rm_left"
    /\ UNCHANGED <<main_pc, robotVars, ikVars, processes, extras, mode,
                   tick_threads, stop_req, runner, remaining, tick_time, clock,
                   pidx, order, count, lastFail, lastStep, fsm_c, genVars,
                   drawVars>>

UikStep(pc, name, task, next) ==
    /\ tick_pc = pc
    /\ tasks' = [tasks EXCEPT ![name] = task]
    /\ tick_pc' = next
    /\ UNCHANGED <<main_pc, robot_lock, q, active_dofs, appearance, ikVars,
                   processes, extras, mode, tick_threads, stop_req, runner,
                   remaining, tick_time, clock, pidx, order, count, lastFail,
                   lastStep, fsm_c, genVars, drawVars>>

UikRemoveLeft == UikStep("uik_rm_left", "left_foot", NoTask, "uik_rm_right")

UikRemoveRight == UikStep("uik_rm_right", "right_foot", NoTask, "uik_add_left")

UikAddLeft ==
    UikStep("uik_add_left", "left_foot", left_foot_task(fsm_c), "uik_add_right")

UikAddRight ==
    UikStep("uik_add_right", "right_foot", right_foot_task(fsm_c), "uik_release")

UikRelease ==
    /\ tick_pc = "uik_release"
    /\ Release(runner)
    /\ tick_pc' = "proc"
    /\ pidx' = pidx + 1
    /\ UNCHANGED <<main_pc, robotVars, ikVars, processes, extras, mode,
                   tick_threads, stop_req, runner, remaining, tick_time, clock,
                   order, count, lastFail, lastStep, fsm_c, genVars, drawVars>>

\* remove_task, the construction of a task or add_task raises: the
\* exception leaves the with block and update_robot_ik, then fsm.on_tick, and
\* reaches the scheduler as the failure of the state machine's tick
UikRaise ==
    /\ tick_pc \in {"uik_rm_left", "uik_rm_right", "uik_add_left",
                    "uik_add_right"}
    /\ RaiseInWith(runner)
    /\ tick_pc' = "proc"
    /\ lastFail' = tick_time
    /\ pidx' = pidx + 1
    /\ UNCHANGED <<main_pc, robotVars, ikVars, processes, extras, mode,
                   tick_threads, stop_req, runner, remaining, tick_time, clock,
                   order, count, lastStep, fsm_c, genVars, drawVars>>

update_robot_ik ==
    \/ UikAcquire
    \/ UikRemoveLeft
    \/ UikRemoveRight
    \/ UikAddLeft
    \/ UikAddRight
    \/ UikRelease
    \/ UikRaise

(***************************************************************************)
(* The kinematics thread started by robot.start_ik_thread(dt)              *)
(* (walk.py:451).  It is handed the period only: robot_lock is a global of *)
(* walk.py (walk.py:71) that is passed neither to the robot nor to the     *)
(* thread, so the solver's read-solve-write cycle does not take it.  Each  *)
(* cycle reads the task set, solves, and writes the configuration.         *)
(***************************************************************************)
NothingSeen == [t \in TaskNames |-> NoTask]

\* the objects a solve reads through the targets of the tasks of ts: the
\* tasks hold the objects handed to them (walk.py:143-156, walk.py:427), and
\* the solver reads a target's pose whenever it evaluates the task
SolverReads(ts) == {ts[t].target : t \in TaskNames} \ {None}

IkRead ==
    /\ ik_pc = "idle"
    /\ ik_seen' = tasks
    /\ ik_pc' = "solving"
    /\ UNCHANGED <<main_pc, robot_lock, robotVars, schedVars, fsm_c, genVars,
                   drawVars>>

IkWrite ==
    /\ ik_pc = "solving"
    /\ q' = "ik"
    /\ ik_seen' = NothingSeen
    /\ ik_pc' = "idle"
    /\ UNCHANGED <<main_pc, robot_lock, tasks, active_dofs, appearance,
                   schedVars, fsm_c, genVars, drawVars>>

run_ik_thread == IkRead \/ IkWrite

(***************************************************************************)
(* The start-up block of __main__ (walk.py:407-445), under robot_lock.     *)
(* Lines 408-426 write the configuration, set the active DOFs, create the  *)
(* solver and generate the initial posture for fsm.cur_stance, which       *)
(* leaves the COM, posture and the two foot contact tasks in the solver;   *)
(* line 427 makes preview_buffer.com the target of the COM task and lines  *)
(* 428-445 add the MinCAM task and the DOF tasks.                          *)
(***************************************************************************)
BootAcquire ==
    /\ main_pc = "boot_lock"
    /\ Acquire("main")
    /\ main_pc' = "boot_cfg"
    /\ UNCHANGED <<robotVars, ikVars, schedVars, fsm_c, genVars, drawVars>>

BootConfigure ==
    /\ main_pc = "boot_cfg"
    /\ q' = "posture"
    /\ active_dofs' = TRUE
    /\ tasks' = [tasks EXCEPT !["com"] = PlainTask,
                              !["posture"] = PlainTask,
                              !["left_foot"] = left_foot_task(fsm_c),
                              !["right_foot"] = right_foot_task(fsm_c)]
    /\ main_pc' = "boot_tasks"
    /\ UNCHANGED <<robot_lock, appearance, ikVars, schedVars, fsm_c, genVars,
                   drawVars>>

BootAddTasks ==
    /\ main_pc = "boot_tasks"
    /\ tasks' = [tasks EXCEPT !["com"] = [@ EXCEPT !.target = com],
                              !["min_cam"] = PlainTask, !["dof"] = PlainTask]
    /\ main_pc' = "boot_unlock"
    /\ UNCHANGED <<robot_lock, q, active_dofs, appearance, ikVars, schedVars,
                   fsm_c, genVars, drawVars>>

BootRelease ==
    /\ main_pc = "boot_unlock"
    /\ Release("main")
    /\ main_pc' = "schedule"
    /\ UNCHANGED <<robotVars, ikVars, schedVars, fsm_c, genVars, drawVars>>

(***************************************************************************)
(* Registration of the processes (walk.py:447-450 and 461-468), and the    *)
(* start of the kinematics thread between the two groups (walk.py:451).    *)
(***************************************************************************)
\* the controller registered before the buffer it reads
ScheduleCalls_Swapped == <<"fsm", "mpc", "preview_buffer">>

ScheduleCalls == <<"fsm", "preview_buffer", "mpc">>

\* a drawer registered twice
ScheduleExtraCalls_Twice ==
    <<"com_traj_drawer", "force_drawer", "force_drawer",
      "left_foot_traj_drawer", "preview_drawer", "right_foot_traj_drawer",
      "sep_drawer", "tube_drawer">>

ScheduleExtraCalls ==
    <<"com_traj_drawer", "force_drawer", "left_foot_traj_drawer",
      "preview_drawer", "right_foot_traj_drawer", "sep_drawer", "tube_drawer">>

Procs ==
    {ScheduleCalls[i] : i \in 1..Len(ScheduleCalls)}
        \cup {ScheduleExtraCalls[i] : i \in 1..Len(ScheduleExtraCalls)}

\* lastStep when no step(n) is in progress or just returned
NoStep == [n |-> 0, clock0 |-> 0, count0 |-> [p \in Procs |-> 0],
           done |-> FALSE]

\* Simulation.schedule(process)
schedule(process) == processes' = Append(processes, process) /\ extras' = extras

\* Simulation.schedule_extra(process)
schedule_extra(process) == extras' = Append(extras, process) /\ processes' = processes

ScheduleCore ==
    /\ main_pc = "schedule"
    /\ schedule(ScheduleCalls[Len(processes) + 1])
    /\ main_pc' = IF Len(processes) + 1 = Len(ScheduleCalls)
                  THEN "start_ik" ELSE "schedule"
    /\ UNCHANGED <<robot_lock, robotVars, ikVars, mode, tick_threads, stop_req,
                   runner, remaining, tick_time, clock, tick_pc, pidx, order,
                   count, lastFail, lastStep, fsm_c, genVars, drawVars>>

StartIkThread ==
    /\ main_pc = "start_ik"
    /\ ik_pc' = "idle"
    /\ main_pc' = "schedule_extra"
    /\ UNCHANGED <<robot_lock, robotVars, ik_seen, schedVars, fsm_c, genVars,
                   drawVars>>

ScheduleExtras ==
    /\ main_pc = "schedule_extra"
    /\ schedule_extra(ScheduleExtraCalls[Len(extras) + 1])
    /\ main_pc' = IF Len(extras) + 1 = Len(ScheduleExtraCalls)
                  THEN "shell" ELSE "schedule_extra"
    /\ UNCHANGED <<robot_lock, robotVars, ikVars, mode, tick_threads, stop_req,
                   runner, remaining, tick_time, clock, tick_pc, pidx, order,
                   count, lastFail, lastStep, fsm_c, genVars, drawVars>>

(***************************************************************************)
(* suntan_hrp (walk.py:360-367), called from the shell.                    *)
(***************************************************************************)
SuntanCall ==
    /\ main_pc = "shell"
    /\ main_pc' = "suntan_acquire"
    /\ lastStep' = NoStep
    /\ UNCHANGED <<robot_lock, robotVars, ikVars, processes, extras, mode,
                   tick_threads, stop_req, runner, remaining, tick_time, clock,
                   tick_pc, pidx, order, count, lastFail, fsm_c, genVars,
                   drawVars>>

SuntanAcquire ==
    /\ main_pc = "suntan_acquire"
    /\ Acquire("main")
    /\ main_pc' = "suntan_paint"
    /\ UNCHANGED <<robotVars, ikVars, schedVars, fsm_c, genVars, drawVars>>

SuntanPaint ==
    /\ main_pc = "suntan_paint"
    /\ appearance' = "suntan"
    /\ main_pc' = "suntan_release"
    /\ UNCHANGED <<robot_lock, tasks, q, active_dofs, ikVars, schedVars, fsm_c,
                   genVars, drawVars>>

SuntanRelease ==
    /\ main_pc = "suntan_release"
    /\ Release("main")
    /\ main_pc' = "shell"
    /\ UNCHANGED <<robotVars, ikVars, schedVars, fsm_c, genVars, drawVars>>

\* set_transparency or a colour call raises: the exception leaves the with
\* block and suntan_hrp, and the shell prints it
SuntanRaise ==
    /\ main_pc = "suntan_paint"
    /\ RaiseInWith("main")
    /\ main_pc' = "shell"
    /\ UNCHANGED <<robotVars, ikVars, schedVars, fsm_c, genVars, drawVars>>

suntan_hrp ==
    \/ SuntanCall
    \/ SuntanAcquire
    \/ SuntanPaint
    \/ SuntanRelease
    \/ SuntanRaise

(***************************************************************************)
(* The tick scheduler (wpg.simulation.Simulation, created at walk.py:447). *)
(* step(n) runs n ticks on the calling thread; start() runs ticks on a     *)
(* thread of its own until stop().  A tick invokes on_tick of every core   *)
(* process, then of every auxiliary process, in registration order; a      *)
(* failing on_tick is logged and the tick goes on with the next process.   *)
(***************************************************************************)
TickOrder == processes \o extras

\* sim.step(n), from the shell
Step(n) ==
    /\ main_pc = "shell"
    /\ mode = "Idle"
    /\ tick_time + n <= MaxTicks
    /\ main_pc' = "stepping"
    /\ runner' = "main"
    /\ remaining' = n
    /\ lastStep' = [n |-> n, clock0 |-> clock, count0 |-> count, done |-> FALSE]
    /\ UNCHANGED <<robot_lock, robotVars, ikVars, processes, extras, mode,
                   tick_threads, stop_req, tick_time, clock, tick_pc, pidx,
                   order, count, lastFail, fsm_c, genVars, drawVars>>

StepReturn ==
    /\ main_pc = "stepping"
    /\ tick_pc = "idle"
    /\ remaining = 0
    /\ main_pc' = "shell"
    /\ runner' = "none"
    /\ lastStep' = [lastStep EXCEPT !.done = TRUE]
    /\ UNCHANGED <<robot_lock, robotVars, ikVars, processes, extras, mode,
                   tick_threads, stop_req, remaining, tick_time, clock,
                   tick_pc, pidx, order, count, lastFail, fsm_c, genVars,
                   drawVars>>

\* sim.start(), from the shell
Start ==
    /\ main_pc = "shell"
    /\ mode = "Idle"
    /\ mode' = "Running"
    /\ tick_threads' = tick_threads + 1
    /\ runner' = "tick"
    /\ lastStep' = NoStep
    /\ UNCHANGED <<main_pc, robot_lock, robotVars, ikVars, processes, extras,
                   stop_req, remaining, tick_time, clock, tick_pc, pidx, order,
                   count, lastFail, fsm_c, genVars, drawVars>>

\* start() while Running creates no thread and changes nothing
StartWhileRunning_Spawn ==
    /\ main_pc = "shell"
    /\ mode = "Running"
    /\ tick_threads' = tick_threads + 1
    /\ UNCHANGED <<main_pc, robot_lock, robotVars, ikVars, processes, extras,
                   mode, stop_req, runner, remaining, tick_time, clock,
                   tick_pc, pidx, order, count, lastFail, lastStep, fsm_c,
                   genVars, drawVars>>

StartWhileRunning ==
    /\ main_pc = "shell"
    /\ mode = "Running"
    /\ UNCHANGED vars

\* sim.stop(), from the shell: ask the tick thread to stop, wait for it
Stop ==
    /\ main_pc = "shell"
    /\ mode = "Running"
    /\ stop_req' = TRUE
    /\ main_pc' = "stopping"
    /\ UNCHANGED <<robot_lock, robotVars, ikVars, processes, extras, mode,
                   tick_threads, runner, remaining, tick_time, clock, tick_pc,
                   pidx, order, count, lastFail, lastStep, fsm_c, genVars,
                   drawVars>>

\* the tick thread leaves its loop between two ticks
TickThreadExit ==
    /\ runner = "tick"
    /\ tick_pc = "idle"
    /\ stop_req
    /\ runner' = "none"
    /\ mode' = "Idle"
    /\ tick_threads' = tick_threads - 1
    /\ stop_req' = FALSE
    /\ UNCHANGED <<main_pc, robot_lock, robotVars, ikVars, processes, extras,
                   remaining, tick_time, clock, tick_pc, pidx, order, count,
                   lastFail, lastStep, fsm_c, genVars, drawVars>>

\* stop() only clears the flag and returns: it does not wait for the thread
StopReturn_NoWait ==
    /\ main_pc = "stopping"
    /\ main_pc' = "shell"
    /\ UNCHANGED <<robot_lock, robotVars, ikVars, schedVars, fsm_c, genVars,
                   drawVars>>

StopReturn ==
    /\ main_pc = "stopping"
    /\ runner = "none"
    /\ main_pc' = "shell"
    /\ UNCHANGED <<robot_lock, robotVars, ikVars, schedVars, fsm_c, genVars,
                   drawVars>>

TickBegin ==
    /\ tick_pc = "idle"
    /\ runner # "none"
    /\ runner = "main" => remaining > 0
    /\ runner = "tick" => ~stop_req /\ tick_time < MaxTicks
    /\ tick_pc' = "proc"
    /\ pidx' = 1
    /\ order' = <<>>
    /\ UNCHANGED <<main_pc, robot_lock, robotVars, ikVars, processes, extras,
                   mode, tick_threads, stop_req, runner, remaining, tick_time,
                   clock, count, lastFail, lastStep, fsm_c, genVars, drawVars>>

Invoke(p) ==
    /\ order' = Append(order, p)
    /\ count' = [count EXCEPT ![p] = @ + 1]

AtProcess(p) ==
    /\ tick_pc = "proc"
    /\ pidx <= Len(TickOrder)
    /\ TickOrder[pidx] = p

\* the targets of IK tasks that on_tick of p moves: the state machine moves
\* the free-foot target along the swing trajectory, the preview buffer
\* integrates the point mass com
Writes(p) ==
    IF p = "fsm" THEN {free_foot}
    ELSE IF p = "preview_buffer" THEN {com}
    ELSE {}

\* on_tick of a process other than the state machine returns normally
ProcessTick ==
    \E p \in Procs \ {"fsm"} :
        /\ AtProcess(p)
        /\ Invoke(p)
        /\ pidx' = pidx + 1
        /\ UNCHANGED <<main_pc, robot_lock, robotVars, ikVars, processes,
                       extras, mode, tick_threads, stop_req, runner, remaining,
                       tick_time, clock, tick_pc, lastFail, lastStep, fsm_c,
                       genVars, drawVars>>

NoFailure == 0 - 1

\* the failure ends the tick: the processes after p are skipped
OnProcessFailure_Abort(p) ==
    /\ lastFail' = tick_time
    /\ pidx' = Len(TickOrder) + 1
    /\ UNCHANGED <<mode, tick_threads, stop_req, runner, remaining, tick_time,
                   clock, tick_pc>>

\* on_tick of a process raises: the scheduler logs it and goes on
OnProcessFailure(p) ==
    /\ lastFail' = tick_time
    /\ pidx' = pidx + 1
    /\ UNCHANGED <<mode, tick_threads, stop_req, runner, remaining, tick_time,
                   clock, tick_pc>>

ProcessTickFails ==
    \E p \in Procs :
        /\ AtProcess(p)
        /\ Invoke(p)
        /\ OnProcessFailure(p)
        /\ UNCHANGED <<main_pc, robot_lock, robotVars, ikVars, processes,
                       extras, lastStep, fsm_c, genVars, drawVars>>

\* fsm.on_tick while the current phase lasts
FsmTick ==
    /\ AtProcess("fsm")
    /\ Invoke("fsm")
    /\ pidx' = pidx + 1
    /\ UNCHANGED <<main_pc, robot_lock, robotVars, ikVars, processes, extras,
                   mode, tick_threads, stop_req, runner, remaining, tick_time,
                   clock, tick_pc, lastFail, lastStep, fsm_c, genVars,
                   drawVars>>

\* fsm.on_tick at the end of a phase: next stance, then callback()
FsmTransition ==
    /\ AtProcess("fsm")
    /\ Invoke("fsm")
    /\ fsm_c' = fsm_c + 1
    /\ tick_pc' = "uik_acquire"
    /\ UNCHANGED <<main_pc, robot_lock, robotVars, ikVars, processes, extras,
                   mode, tick_threads, stop_req, runner, remaining, tick_time,
                   clock, pidx, lastFail, lastStep, genVars, drawVars>>

TickEnd ==
    /\ tick_pc = "proc"
    /\ pidx = Len(TickOrder) + 1
    /\ tick_time' = tick_time + 1
    /\ clock' = clock + Dt
    /\ remaining' = IF runner = "main" THEN remaining - 1 ELSE remaining
    /\ tick_pc' = "idle"
    /\ UNCHANGED <<main_pc, robot_lock, robotVars, ikVars, processes, extras,
                   mode, tick_threads, stop_req, runner, pidx, order, count,
                   lastFail, lastStep, fsm_c, genVars, drawVars>>

(***************************************************************************)
(* numpy's global random generator: seed(42) at walk.py:371, random(3) at  *)
(* walk.py:98 and walk.py:108.  The generator is a deterministic function  *)
(* of its state; it is modelled by a full-period linear congruential       *)
(* generator over RngStates states.                                        *)
(***************************************************************************)
RngStates == 16

rng_next(x) == (5 * x + 3) % RngStates

seed(n) == n % RngStates

\* random(3): three draws; .state is the generator's state after them
random3(x) ==
    LET a == rng_next(x)
        b == rng_next(a)
        c == rng_next(b)
    IN  [draws |-> <<a, b, c>>, state |-> c]

(***************************************************************************)
(* arange(0., 2 * pi, angular_step) (walk.py:91).  angular_step is given   *)
(* in units of 1/8 rad, in which 2 * pi = 50.265...: for an integer k,     *)
(* k * angular_step < 2 * pi iff k * angular_step <= TwoPiFloor.  numpy    *)
(* computes the length as ceil((stop - start) / step), which is not        *)
(* positive for a negative step (an empty array) and fails with a          *)
(* ValueError for a zero step.                                             *)
(***************************************************************************)
TwoPiFloor == 50

\* the length rounded down: the last, partial step is left out
arange_len_floor(angular_step) ==
    IF angular_step > 0 THEN TwoPiFloor \div angular_step ELSE 0

arange_len(angular_step) ==
    IF angular_step > 0 THEN TwoPiFloor \div angular_step + 1 ELSE 0

\* the k-th value of the array (k from 0), in units of 1/8 rad
arange_at(angular_step, k) == k * angular_step

(***************************************************************************)
(* Contact(...) as built at walk.py:92-101 (left) and walk.py:102-111      *)
(* (right).  Angles inside a contact are in units of 1/16 rad, so that     *)
(* theta + .5 * angular_step is an integer.  pos is kept as the arguments  *)
(* of its formula: [scale/10 * radius * cos(at), scale/10 * radius *       *)
(* sin(at), radius + .5 * height * sin(at)]; rpy as roughness *            *)
(* (draws - 0.5) + [0, 0, yaw_at + .5 * pi].                               *)
(***************************************************************************)
Contact(X, Y, pos, rpy, friction, visible) ==
    [X |-> X, Y |-> Y, pos |-> pos, rpy |-> rpy, friction |-> friction,
     visible |-> visible]

left_foot(p, theta, draws) ==
    Contact(p.step_dim_x, p.step_dim_y,
            [scale |-> 10, radius |-> p.radius, height |-> p.height,
             at |-> 2 * theta],
            [roughness |-> p.roughness, draws |-> draws, yaw_at |-> 2 * theta],
            p.friction, TRUE)

right_foot(p, theta, draws) ==
    Contact(p.step_dim_x, p.step_dim_y,
            [scale |-> 13, radius |-> p.radius, height |-> p.height,
             at |-> 2 * theta + p.angular_step],
            [roughness |-> p.roughness, draws |-> draws, yaw_at |-> 2 * theta],
            p.friction, TRUE)

(***************************************************************************)
(* generate_staircase (walk.py:75-114): the loop over theta, from its k-th *)
(* iteration on, with the steps built so far and the generator's state.    *)
(***************************************************************************)
RECURSIVE staircase_loop(_, _, _, _)
staircase_loop(p, k, steps, x) ==
    IF k >= arange_len(p.angular_step)
    THEN [status |-> "ok", steps |-> steps, rng |-> x]
    ELSE LET theta == arange_at(p.angular_step, k)
             l     == random3(x)
             r     == random3(l.state)
         IN  staircase_loop(p, k + 1,
                            steps \o <<left_foot(p, theta, l.draws),
                                       right_foot(p, theta, r.draws)>>,
                            r.state)

generate_staircase(p, x) ==
    IF p.angular_step = 0
    THEN [status |-> "ValueError", steps |-> <<>>, rng |-> x]
    ELSE staircase_loop(p, 0, <<>>, x)

\* the call of walk.py:380-387; lengths in tenths, angular_step = 0.5 rad
MainParams ==
    [radius |-> 14, angular_step |-> 4, height |-> 14, roughness |-> 5,
     friction |-> 7, step_dim_x |-> 2, step_dim_y |-> 1]

(***************************************************************************)
(* Inputs of the generator specification.                                  *)
(***************************************************************************)
MaxAngularStep == 52

AngularSteps ==
    {s \in (0 - 2)..MaxAngularStep : s % 2 = 0 \/ s > TwoPiFloor - 2}

Params ==
    [radius : {14}, angular_step : AngularSteps, height : {14},
     roughness : {5}, friction : {7}, step_dim_x : {2}, step_dim_y : {1}]
        \cup {[MainParams EXCEPT !.friction = 5],
              [MainParams EXCEPT !.step_dim_x = 3, !.step_dim_y = 2]}

\* a call of generate_staircase(**p): the result is recorded with its
\* arguments, and the global generator keeps the state the call left
GenerateCall(p) ==
    /\ Len(calls) < MaxCalls
    /\ LET res == generate_staircase(p, rng)
       IN  /\ calls' = Append(calls, [params |-> p, status |-> res.status,
                                      steps |-> res.steps])
           /\ rng' = res.rng
    /\ UNCHANGED <<main_pc, robot_lock, robotVars, ikVars, schedVars, fsm_c,
                   drawVars>>

(***************************************************************************)
(* The drawers (walk.py:159-184, walk.py:293-353).  The scheduler invokes  *)
(* the on_tick of each once per tick; ProcessTick and ProcessTickFails     *)
(* keep of an on_tick only whether it returns or raises, and the actions   *)
(* below are the bodies of two of them, with wall-clock time in ms.        *)
(* find_supporting_forces is an input: it raises, or it returns the        *)
(* forces of the contacts in support (none: no support).  Consecutive      *)
(* ticks of the force drawer are one period or one slow tick apart, and    *)
(* the two readings of time.time() inside one on_tick (walk.py:176 and     *)
(* walk.py:181) are the same instant.                                      *)
(***************************************************************************)
SlowTick == 100   \* ms between two ticks when a tick overruns its period
MaxNow   == 290   \* wall-clock time up to which ticks are followed

SwitchDelay == 200   \* walk.py:181

At(t) == <<"time", t>>

Alarm  == "alarm"    \* [.8, .4, .4]
Normal == "normal"   \* [.6, .6, .8]

MaxSupport == 2   \* contacts of a double-support stance

\* what find_supporting_forces returned: FindRaised if it raised, else the
\* number of (contact, force) pairs, 0 for None or an empty list
FindRaised == 0 - 1

Gaps == {Dt, SlowTick}

\* walk.py:173
NoSupport(support) == support = 0

\* walk.py:174: the handles held after a tick without support
handles_without_support_Kept(h) == h

handles_without_support(h) == 0

\* walk.py:180-181, rewritten with >= in place of >
SwitchExpired_AtDelay(last, t) == last # None /\ t - last[2] >= SwitchDelay

\* walk.py:180-181
SwitchExpired(last, t) == last # None /\ t - last[2] > SwitchDelay

\* ForceDrawer.on_tick at wall-clock time t
ForceDrawer_on_tick(t, support) ==
    /\ now' = t
    /\ fd_support' = support
    /\ IF support = FindRaised
          THEN /\ fd_result' = "raised"
               /\ UNCHANGED <<last_bkgnd_switch, handles, bkgnd>>
          ELSE LET switch1 == IF NoSupport(support) THEN At(t)
                                                   ELSE last_bkgnd_switch
                   bkgnd1  == IF NoSupport(support) THEN Alarm ELSE bkgnd
               IN  /\ handles' = IF NoSupport(support)
                                    THEN handles_without_support(handles)
                                    ELSE support
                   /\ IF SwitchExpired(switch1, t)
                         THEN bkgnd' = Normal /\ last_bkgnd_switch' = None
                         ELSE bkgnd' = bkgnd1 /\ last_bkgnd_switch' = switch1
                   /\ fd_result' = "returned"
    /\ UNCHANGED <<main_pc, robot_lock, robotVars, ikVars, schedVars, fsm_c,
                   genVars, tdVars>>

ForceDrawerTick ==
    \E d \in Gaps : \E support \in FindRaised..MaxSupport :
        /\ now + d <= MaxNow
        /\ ForceDrawer_on_tick(now + d, support)

Stage(name, raised) == [stage |-> name, raised |-> raised]

\* walk.py:302-312 with draw_dual called outside its try
TubeDrawerRun_DualEscapes(pf, df, cf) ==
    IF df THEN [stages |-> <<Stage("primal", pf), Stage("dual", df)>>,
                result |-> "raised"]
          ELSE [stages |-> <<Stage("primal", pf), Stage("dual", df),
                             Stage("comdd", cf)>>,
                result |-> IF cf THEN "raised" ELSE "returned"]

\* walk.py:302-312: the stages on_tick runs and how it ends, given which of
\* draw_primal, draw_dual and draw_comdd raise
TubeDrawerRun(pf, df, cf) ==
    [stages |-> <<Stage("primal", pf), Stage("dual", df), Stage("comdd", cf)>>,
     result |-> IF cf THEN "raised" ELSE "returned"]

Ran(stages, name) == \E i \in 1..Len(stages) : stages[i].stage = name

RanWell(stages, name) ==
    \E i \in 1..Len(stages) : stages[i].stage = name /\ ~stages[i].raised

\* draw_primal and draw_dual empty their list first and fill it as they
\* draw; draw_dual sets trans before it draws; draw_comdd assigns its
\* handle after both primitives returned
TubeDrawer_on_tick(pf, df, cf) ==
    LET run == TubeDrawerRun(pf, df, cf)
    IN  /\ td_stages' = run.stages
        /\ td_result' = run.result
        /\ poly_handles' = IF RanWell(run.stages, "primal") THEN "drawn"
                                                             ELSE "partial"
        /\ cone_handles' = IF RanWell(run.stages, "dual") THEN "drawn"
                           ELSE IF Ran(run.stages, "dual") THEN "partial"
                           ELSE cone_handles
        /\ trans' = IF Ran(run.stages, "dual") THEN "com" ELSE trans
        /\ comdd_handle' = IF RanWell(run.stages, "comdd") THEN "drawn"
                                                            ELSE comdd_handle
        /\ UNCHANGED <<main_pc, robot_lock, robotVars, ikVars, schedVars,
                       fsm_c, genVars, fdVars>>

TubeDrawerTick ==
    \E pf \in BOOLEAN : \E df \in BOOLEAN : \E cf \in BOOLEAN :
        TubeDrawer_on_tick(pf, df, cf)

\* ForceDrawer.__init__, TubeDrawer.__init__ and the viewer as it starts
DrawersInit ==
    /\ now = 0
    /\ last_bkgnd_switch = None
    /\ handles = 0
    /\ bkgnd = "default"
    /\ fd_support = FindRaised
    /\ fd_result = "none"
    /\ poly_handles = "none"
    /\ cone_handles = "none"
    /\ comdd_handle = "none"
    /\ trans = "initial"
    /\ td_stages = <<>>
    /\ td_result = "none"

(***************************************************************************)
(* Initial states.  RobotInit is the program at walk.py:407: the robot is  *)
(* loaded, the state machine is built in its first phase, nothing is       *)
(* scheduled and no thread but the main one runs.                          *)
(***************************************************************************)
RobotInit ==
    /\ main_pc = "boot_lock"
    /\ robot_lock = "free"
    /\ tasks = [t \in TaskNames |-> NoTask]
    /\ q = "init"
    /\ active_dofs = FALSE
    /\ appearance = "glass"
    /\ ik_pc = "off"
    /\ ik_seen = NothingSeen
    /\ processes = <<>>
    /\ extras = <<>>
    /\ mode = "Idle"
    /\ tick_threads = 0
    /\ stop_req = FALSE
    /\ runner = "none"
    /\ remaining = 0
    /\ tick_time = 0
    /\ clock = 0
    /\ tick_pc = "idle"
    /\ pidx = 1
    /\ order = <<>>
    /\ count = [p \in Procs |-> 0]
    /\ lastFail = NoFailure
    /\ fsm_c = 0
    /\ lastStep = NoStep

\* seed(42), then the staircase of walk.py:380-387
Init ==
    /\ RobotInit
    /\ DrawersInit
    /\ LET res == generate_staircase(MainParams, seed(42))
       IN  /\ calls = <<[params |-> MainParams, status |-> res.status,
                         steps |-> res.steps]>>
           /\ rng = res.rng

Next ==
    \/ BootAcquire
    \/ BootConfigure
    \/ BootAddTasks
    \/ BootRelease
    \/ ScheduleCore
    \/ StartIkThread
    \/ ScheduleExtras
    \/ suntan_hrp
    \/ \E n \in 0..MaxN : Step(n)
    \/ StepReturn
    \/ Start
    \/ StartWhileRunning
    \/ Stop
    \/ TickThreadExit
    \/ StopReturn
    \/ TickBegin
    \/ ProcessTick
    \/ ProcessTickFails
    \/ FsmTick
    \/ FsmTransition
    \/ update_robot_ik
    \/ TickEnd
    \/ run_ik_thread

Spec == Init /\ [][Next]_vars

(***************************************************************************)
(* The generator on its own: the state right after seed(42)                *)
(* (walk.py:371), and calls of generate_staircase with arguments drawn     *)
(* from Params.                                                            *)
(***************************************************************************)
GenInit ==
    /\ RobotInit
    /\ DrawersInit
    /\ rng = seed(42)
    /\ calls = <<>>

GenNext == \E p \in Params : GenerateCall(p)

GenSpec == GenInit /\ [][GenNext]_vars

(***************************************************************************)
(* The scheduling the lock claims rest on: a thread inside a critical      *)
(* section keeps running until it leaves it (weak fairness of its steps),  *)
(* and a thread blocked in acquire gets the lock if the lock is free again *)
(* and again (strong fairness of the acquisitions).                        *)
(***************************************************************************)
FairSpec ==
    /\ Spec
    /\ SF_vars(UikAcquire)
    /\ SF_vars(SuntanAcquire)
    /\ WF_vars(BootAcquire)
    /\ WF_vars(BootConfigure \/ BootAddTasks \/ BootRelease)
    /\ WF_vars(UikRemoveLeft \/ UikRemoveRight \/ UikAddLeft \/ UikAddRight
                   \/ UikRelease)
    /\ WF_vars(SuntanPaint \/ SuntanRelease)

(***************************************************************************)
(* The drawers on their own, from the state the program starts in.         *)
(***************************************************************************)
DrawNext == ForceDrawerTick \/ TubeDrawerTick

DrawSpec == Init /\ [][DrawNext]_vars

(***************************************************************************)
(* Claims.                                                                 *)
(***************************************************************************)
HasFootTasks(ts) == ts["left_foot"] # NoTask /\ ts["right_foot"] # NoTask

\* C1: every task set the solver reads holds a left-foot task and a
\* right-foot task: it never reads the state in which update_robot_ik has
\* removed the foot tasks and not yet added them back.
C1_SolverReadsBothFootTasks == ik_pc = "solving" => HasFootTasks(ik_seen)

\* C2: the kinematics thread is never inside its read-solve-write section
\* while the tick thread is inside the critical section of update_robot_ik.
C2_SolveExcludesRetarget == ~(ik_pc = "solving" /\ InUpdateRobotIk)

\* The registration order of walk.py:448-450 and walk.py:461-468.
CoreGroup == <<"fsm", "preview_buffer", "mpc">>

AuxGroup ==
    <<"com_traj_drawer", "force_drawer", "left_foot_traj_drawer",
      "preview_drawer", "right_foot_traj_drawer", "sep_drawer", "tube_drawer">>

\* C3: when step(n) returns, having started from Idle, the clock has
\* advanced by exactly n * dt and every registered process, core or
\* auxiliary, has been invoked exactly n times.
C3_StepAdvancesByN ==
    lastStep.done =>
        /\ clock = lastStep.clock0 + lastStep.n * Dt
        /\ \A p \in Procs : count[p] = lastStep.count0[p] + lastStep.n

C3_Witness == lastStep.done /\ lastStep.n = MaxN /\ MaxN >= 2

\* C4: in every tick the processes are invoked in the order fsm,
\* preview_buffer, mpc, then the drawers in their order of registration: the
\* core group is complete before the first auxiliary process starts, and a
\* process starts only when the one before it has returned.
C4_CoreBeforeAuxInOrder ==
    /\ Len(order) <= Len(CoreGroup \o AuxGroup)
    /\ order = SubSeq(CoreGroup \o AuxGroup, 1, Len(order))
    /\ tick_pc = "proc" => Len(order) = pidx - 1
    /\ tick_pc \in {"uik_acquire"} \/ InUpdateRobotIk =>
           Len(order) = pidx /\ order[pidx] = "fsm"
    /\ tick_pc = "idle" /\ tick_time > 0 => order = CoreGroup \o AuxGroup

C4_Witness ==
    /\ tick_pc = "proc"
    /\ Len(order) = Len(CoreGroup) + 2
    /\ fsm_c > 0

\* C5: if the on_tick of a process fails on tick k, then tick k still
\* invokes every process and so does tick k+1: once tick k is over every
\* process has run k+1 times, once tick k+1 is over k+2 times, and the
\* scheduler has not stopped (a step(n) in progress still runs its n ticks).
C5_FailureDoesNotAbortTick ==
    lastFail # NoFailure =>
        LET k == lastFail
        IN  /\ tick_time > k => \A p \in Procs : count[p] >= k + 1
            /\ tick_time > k + 1 => \A p \in Procs : count[p] >= k + 2
            /\ tick_time = k /\ tick_pc = "proc" => Len(order) = pidx - 1
            /\ main_pc = "stepping" =>
                   tick_time + remaining
                       = lastStep.clock0 \div Dt + lastStep.n

C5_Witness ==
    /\ lastFail = 0
    /\ tick_time = 2
    /\ lastStep.done
    /\ lastStep.n = 2

\* The thread taking the step: the solver when a solve ends, the thread
\* running the tick inside update_robot_ik, the main thread otherwise.
SharedStateWriter ==
    IF ik_pc = "solving" /\ ik_pc' = "idle" THEN "ik"
    ELSE IF InUpdateRobotIk THEN runner
    ELSE "main"

\* C6: every mutation of the shared robot state (a task removed, added or
\* replaced, the joint configuration or the active DOFs written, the robot's
\* appearance changed by suntan_hrp) is made by a thread that holds
\* robot_lock at that moment.
C6_MutationsHoldLock ==
    [][(tasks' # tasks \/ q' # q \/ active_dofs' # active_dofs
            \/ appearance' # appearance)
           => robot_lock = SharedStateWriter]_vars

\* Threads blocked in, or past, the acquisition of robot_lock.
MainRequests == main_pc \in {"boot_lock", "suntan_acquire"}

MainInside ==
    main_pc \in {"boot_cfg", "boot_tasks", "boot_unlock", "suntan_paint",
                 "suntan_release"}

TickRequests == tick_pc = "uik_acquire"

LockDiscipline ==
    /\ MainRequests => robot_lock # "main" /\ (runner = "main" => ~InUpdateRobotIk)
    /\ TickRequests => robot_lock # runner /\ ~(runner = "main" /\ MainInside)
    /\ robot_lock # "free" =>
           \/ robot_lock = "main" /\ MainInside /\ ~InUpdateRobotIk
           \/ robot_lock = runner /\ InUpdateRobotIk /\ ~MainInside

\* C7: the lock never deadlocks: a thread never requests robot_lock while it
\* holds it, the holder of the lock is always inside a critical section it
\* can leave without waiting, and every thread that requests the lock
\* eventually acquires it.
C7_NoDeadlockOnLock ==
    /\ []LockDiscipline
    /\ TickRequests ~> InUpdateRobotIk
    /\ MainRequests ~> MainInside

C7_Witness ==
    /\ main_pc = "suntan_acquire"
    /\ runner = "tick"
    /\ InUpdateRobotIk
    /\ ik_pc = "solving"

\* ceil(2 * pi / angular_step) for 0 < angular_step, in units of 1/8 rad:
\* the least n with n * angular_step >= 2 * pi
CeilTwoPiOver(angular_step) ==
    CHOOSE n \in 1..(TwoPiFloor + 1) :
        /\ n * angular_step > TwoPiFloor
        /\ (n - 1) * angular_step <= TwoPiFloor

ValidStep(angular_step) == 0 < angular_step /\ angular_step <= TwoPiFloor

\* C8: for 0 < angular_step < 2 * pi, generate_staircase returns exactly
\* 2 * ceil(2 * pi / angular_step) surfaces, alternating left (at radius)
\* and right (at 1.3 * radius), each with the given friction, the given
\* half-extents and visible = True; 26 surfaces for angular_step = 0.5.
C8_StaircaseLength ==
    \A i \in 1..Len(calls) :
        LET c == calls[i]
            p == c.params
        IN  ValidStep(p.angular_step) =>
                /\ c.status = "ok"
                /\ Len(c.steps) = 2 * CeilTwoPiOver(p.angular_step)
                /\ p.angular_step = 4 => Len(c.steps) = 26
                /\ \A j \in 1..Len(c.steps) :
                       /\ c.steps[j].friction = p.friction
                       /\ c.steps[j].X = p.step_dim_x
                       /\ c.steps[j].Y = p.step_dim_y
                       /\ c.steps[j].visible = TRUE
                       /\ c.steps[j].pos.scale = IF j % 2 = 1 THEN 10 ELSE 13

C8_Witness ==
    \E i \in 1..Len(calls) :
        /\ calls[i].params.angular_step = 4
        /\ calls[i].params.friction = 7
        /\ Len(calls[i].steps) = 26

\* C9: two calls of the generator with identical parameters return
\* identical sequences of surfaces, whatever calls were made before or
\* between them.
C9_SameParamsSameOutput ==
    \A i, j \in 1..Len(calls) :
        calls[i].params = calls[j].params => calls[i].steps = calls[j].steps

\* C10: for angular_step <= 0 or angular_step >= 2 * pi the generator fails
\* with InvalidParameter and returns no list of surfaces.
C10_InvalidStepRejected ==
    \A i \in 1..Len(calls) :
        ~ValidStep(calls[i].params.angular_step) =>
            calls[i].status = "InvalidParameter"

\* C11: when stop() returns, the tick thread has quiesced: no tick is left
\* half-executed (the tick in progress at the call has invoked every
\* process), and as long as no thread of control runs ticks (until the next
\* start() or step()) no on_tick is invoked.
C11_StopWaitsForTick ==
    [][/\ main_pc = "stopping" /\ main_pc' = "shell" =>
              /\ tick_pc' = "idle"
              /\ runner' = "none"
              /\ mode' = "Idle"
              /\ order' \in {<<>>, CoreGroup \o AuxGroup}
       /\ runner = "none" /\ runner' = "none" =>
              count' = count /\ tick_pc' = "idle"]_vars

\* stop() is called while the tick thread is in the middle of a tick
C11_Witness ==
    /\ main_pc = "stopping"
    /\ runner = "tick"
    /\ tick_pc = "proc"
    /\ pidx > Len(CoreGroup)
    /\ pidx <= Len(CoreGroup \o AuxGroup)

\* C12: the scheduler is always in exactly one of Idle and Running; only
\* start() moves it from Idle to Running and only the completion of stop()
\* moves it from Running to Idle; step(n) is accepted only in Idle and leaves
\* the scheduler Idle; start() while Running creates no second tick thread:
\* at most one thread of control ever executes ticks.
C12_IdleRunningOneThread ==
    /\ [](/\ mode \in {"Idle", "Running"}
          /\ tick_threads = (IF mode = "Running" THEN 1 ELSE 0)
          /\ runner = "tick" <=> mode = "Running"
          /\ main_pc = "stepping" => mode = "Idle" /\ runner = "main"
          /\ tick_pc # "idle" => runner \in {"main", "tick"})
    /\ [][/\ mode = "Idle" /\ mode' = "Running" =>
                 main_pc = "shell" /\ main_pc' = "shell" /\ tick_threads' = 1
          /\ mode = "Running" /\ mode' = "Idle" => main_pc = "stopping"
          /\ main_pc # "stepping" /\ main_pc' = "stepping" =>
                 mode = "Idle" /\ mode' = "Idle"
          /\ main_pc = "stepping" => mode' = "Idle"]_vars

\* start() is possible again while the tick thread is in the middle of a tick
C12_Witness ==
    /\ ENABLED StartWhileRunning
    /\ tick_threads = 1
    /\ tick_pc = "proc"
    /\ tick_time >= 1

\* C13: whenever find_supporting_forces reported no support in the last
\* ForceDrawer tick, that on_tick returned normally, the drawer holds no
\* force handle, and the background shows the alarm colour.
C13_NoSupportAlarm ==
    fd_support = 0 =>
        /\ fd_result = "returned"
        /\ handles = 0
        /\ bkgnd = "alarm"

\* a tick without support that is not the first tick of the drawer
C13_Witness ==
    /\ fd_support = 0
    /\ fd_result = "returned"
    /\ now > SlowTick

\* C14: in every pair the right surface is the left surface's formula
\* evaluated at theta + angular_step / 2: it lies at radius 1.3 * radius
\* and angle theta + angular_step / 2, its height is radius + 0.5 * height
\* * sin(theta + angular_step / 2), and its unperturbed yaw is
\* (theta + angular_step / 2) + pi / 2.
C14_RightSurfaceAtOffsetAngle ==
    \A i \in 1..Len(calls) :
        \A k \in 0..((Len(calls[i].steps) \div 2) - 1) :
            LET p      == calls[i].params
                right  == calls[i].steps[2 * k + 2]
                offset == 2 * arange_at(p.angular_step, k) + p.angular_step
            IN  /\ right.pos.scale = 13
                /\ right.pos.radius = p.radius
                /\ right.pos.height = p.height
                /\ right.pos.at = offset
                /\ right.rpy.yaw_at = offset

\* C15: a call of update_robot_ik leaves every task other than the two foot
\* tasks (COM, posture, min-CAM, DOF) as it was, and when the call completes
\* the task set holds one task for each foot: a contact task on the surface
\* the current stance assigns to the foot, or a free-link-pose task on the
\* free-foot target when the stance assigns none.
C15_FootTasksMatchStance ==
    [][/\ InUpdateRobotIk \/ InUpdateRobotIk' =>
              \A t \in OtherTasks : tasks'[t] = tasks[t]
       /\ tick_pc = "uik_release" /\ tick_pc' = "proc" =>
              /\ \A t \in OtherTasks : tasks'[t] # NoTask
              /\ \A foot \in FootTasks :
                     LET surface == cur_stance(fsm_c')[foot]
                     IN  IF surface # None
                         THEN tasks'[foot] = [kind |-> "contact",
                                              target |-> surface]
                         ELSE tasks'[foot] = [kind |-> "link_pose",
                                              target |-> free_foot]]_vars

\* a call is complete in a single-support phase, after an earlier call failed
C15_Witness ==
    /\ tick_pc = "uik_release"
    /\ lastFail # NoFailure
    /\ \E foot \in FootTasks : tasks[foot] = LinkPoseTask(free_foot)
    /\ \E foot \in FootTasks : tasks[foot].kind = "contact"

\* C16: a thread that holds robot_lock performs no rendering operation (and
\* no I/O): the robot's appearance, which only the main thread changes, is
\* never changed while the main thread holds the lock.
C16_NoRenderingUnderLock ==
    [][appearance' # appearance => robot_lock # "main"]_vars

\* C17: the shared robot state is the only mutable state touched by both
\* threads: while the kinematics thread is in a solve, no process about to
\* be ticked writes an object the solve reads through the targets of its
\* tasks.
C17_OnlyRobotStateShared ==
    \A p \in Procs :
        ik_pc = "solving" /\ AtProcess(p) =>
            Writes(p) \cap SolverReads(ik_seen) = {}

\* the three stages of the last TubeDrawer tick all ran, in their order
AllStagesRan ==
    /\ Len(td_stages) = 3
    /\ td_stages[1].stage = "primal"
    /\ td_stages[2].stage = "dual"
    /\ td_stages[3].stage = "comdd"

\* C18 (as stated): in every TubeDrawer tick the dual and the
\* COM-acceleration stages run whether or not an earlier stage failed, and
\* no failure of any of the three stages leaves on_tick.
C18_NoStageFailureEscapes ==
    td_result # "none" => AllStagesRan /\ td_result = "returned"

\* C18 (amended): in every TubeDrawer tick the dual and the
\* COM-acceleration stages run whether or not an earlier stage failed; a
\* failure of the primal or of the dual stage never leaves on_tick, and
\* on_tick raises exactly when the COM-acceleration stage fails.
C18_PrimalDualIsolated ==
    td_result # "none" =>
        /\ AllStagesRan
        /\ td_result = (IF td_stages[3].raised THEN "raised" ELSE "returned")

\* both guarded stages failed, the COM-acceleration stage drew its handle and
\* on_tick returned
C18_Witness ==
    /\ td_result = "returned"
    /\ AllStagesRan
    /\ td_stages[1].raised
    /\ td_stages[2].raised
    /\ ~td_stages[3].raised
    /\ comdd_handle = "drawn"

InSuntan == main_pc \in {"suntan_paint", "suntan_release"}

\* C19: robot_lock is released on every way out of update_robot_ik and of
\* suntan_hrp, the normal return and the exception of a call part-way: the
\* step that leaves either block leaves the lock free, and the lock is held
\* only while its holder is inside a block, so that any thread asking for
\* the lock afterwards can acquire it.
C19_LockReleasedOnEveryExit ==
    /\ [](robot_lock # "free" => InUpdateRobotIk \/ MainInside)
    /\ [][/\ InUpdateRobotIk /\ ~InUpdateRobotIk' => robot_lock' = "free"
          /\ InSuntan /\ ~InSuntan' => robot_lock' = "free"]_vars

\* update_robot_ik raised in this tick after it removed a foot task, and the
\* main thread is asking for the lock
C19_Witness ==
    /\ lastFail = tick_time
    /\ tick_pc = "proc"
    /\ order = <<"fsm">>
    /\ \E foot \in FootTasks : tasks[foot] = NoTask
    /\ main_pc = "suntan_acquire"
    /\ robot_lock = "free"

\* C20: after every ForceDrawer tick last_bkgnd_switch is set exactly when
\* the background shows the alarm colour; a tick without support leaves the
\* alarm colour on (it is never restored in the tick that raised it) and
\* stamps the switch with its own time; a tick with support restores the
\* normal colour and resets last_bkgnd_switch to None if it runs more than
\* 0.2 s after the last tick without support, and changes neither otherwise:
\* the restore happens on the first such tick, and on no earlier one.
C20_AlarmTransient ==
    /\ [](last_bkgnd_switch # None <=> bkgnd = "alarm")
    /\ [][now' # now /\ fd_result' = "returned" =>
              /\ fd_support' = 0 =>
                     bkgnd' = "alarm" /\ last_bkgnd_switch' = At(now')
              /\ fd_support' > 0 =>
                     IF /\ last_bkgnd_switch # None
                        /\ now' - last_bkgnd_switch[2] > SwitchDelay
                     THEN bkgnd' = "normal" /\ last_bkgnd_switch' = None
                     ELSE /\ bkgnd' = bkgnd
                          /\ last_bkgnd_switch' = last_bkgnd_switch]_vars

\* the alarm was raised and a later tick with support restored the background
C20_Witness ==
    /\ bkgnd = "normal"
    /\ last_bkgnd_switch = None
    /\ fd_support > 0
    /\ fd_result = "returned"
    /\ now > SwitchDelay

====
